---- MODULE Spec2Model ----
(***************************************************************************)
(* Model of scripts/validate/validate_references.py (class Reference and   *)
(* class ReferenceValidator).                                              *)
(*                                                                         *)
(* Text is a sequence of characters.  A character is a one-element string; *)
(* a CJK ideograph is written as a tag in angle brackets ("<zhang>"), the  *)
(* em dash U+2014 as "<emdash>".  Python's None is the value None below,   *)
(* a present value v is Some(v).                                           *)
(***************************************************************************)
EXTENDS Integers, Sequences, FiniteSets, TLC

----------------------------------------------------------------------------
(* Characters and the character classes the regular expressions use.       *)

Digits == {"0", "1", "2", "3", "4", "5", "6", "7", "8", "9"}

\* [a-zA-Z] restricted to the letters that occur in the inputs
Latin == {"A", "B", "C", "D", "E", "I", "J", "L", "M", "P", "S", "T", "W",
          "a", "c", "d", "e", "g", "h", "i", "m", "n", "o", "p", "q", "r",
          "s", "t", "u", "w", "x", "y"}

\* [\u4e00-\u9fff] restricted to the ideographs that occur in the inputs
CJK == {"<zhang>", "<san>", "<li>", "<si>", "<wang>", "<wu>", "<zhao>",
        "<liu>", "<deng>", "<fu>", "<neng>", "<jiao>", "<yu>", "<de>",
        "<shi>", "<jian>", "<tan>", "<suo>", "<ji>", "<suan>", "<ji2>", "<ti>",
        "<kan>", "<bei>", "<jing>", "<gao>", "<she>", "<ming>", "<wen>",
        "<da>", "<xue>", "<ju>", "<gui>", "<yan>", "<jiu>", "<di>", "<zhai>",
        "<yao>", "<guan>", "<jian4>", "<ci>", "<can>", "<kao>"}

\* the truncation marker, U+7B49
Deng == "<deng>"

Whitespace == {" ", "\t", "\n"}

None == [some |-> FALSE, v |-> <<>>]
Some(x) == [some |-> TRUE, v |-> x]

----------------------------------------------------------------------------
(* A regular-expression matcher with the semantics of Python's re.match:  *)
(* of all the ways a pattern matches, the backtracking search returns the  *)
(* first in priority order (a lazy repetition tries fewer characters       *)
(* first, a greedy one more, an optional group is tried before it is       *)
(* skipped).  The patterns have no back-references, so whether the rest of *)
(* a pattern can match from a position depends on the position only: the   *)
(* search's result is found by tabulating that (Rows), then taking at each *)
(* choice the first alternative from which the rest can match (Walk).      *)
(* A pattern is a sequence of items:                                       *)
(*   [k |-> "rep", neg, set, min, max, lazy]  a character class repeated   *)
(*       min..max times (max = -1: unbounded), lazily or greedily;         *)
(*   [k |-> "open", g] / [k |-> "close", g]   the ends of capture group g; *)
(*   [k |-> "opt", n]     the next n items form an optional (greedy) group;*)
(*   [k |-> "bol"] / [k |-> "eol"]             ^ and $ under re.MULTILINE. *)

Cls(neg, set, min, max, lazy) ==
    [k |-> "rep", neg |-> neg, set |-> set, min |-> min, max |-> max,
     lazy |-> lazy, g |-> 0, n |-> 0]
Ch(c)      == Cls(FALSE, {c}, 1, 1, FALSE)          \* a literal character
Dot        == {"\n"}                                \* . is [^\n]
LazyPlus(neg, set) == Cls(neg, set, 1, -1, TRUE)    \* X+?
Plus(neg, set)     == Cls(neg, set, 1, -1, FALSE)   \* X+
Star(neg, set)     == Cls(neg, set, 0, -1, FALSE)   \* X*
Times(neg, set, n) == Cls(neg, set, n, n, FALSE)    \* X{n}
Ctl(kind, g, n) ==
    [k |-> kind, neg |-> FALSE, set |-> {}, min |-> 0, max |-> 0,
     lazy |-> FALSE, g |-> g, n |-> n]
Open(g)  == Ctl("open", g, 0)
Close(g) == Ctl("close", g, 0)
Opt(n)   == Ctl("opt", 0, n)
Bol      == Ctl("bol", 0, 0)
Eol      == Ctl("eol", 0, 0)
Group(g, items) == <<Open(g)>> \o items \o <<Close(g)>>

InClass(it, c) == IF it.neg THEN c \notin it.set ELSE c \in it.set

SetMin(S) == CHOOSE x \in S : \A y \in S : x <= y
SetMax(S) == CHOOSE x \in S : \A y \in S : x >= y

\* the position after the longest run of it's class that starts at pos
\* (at most it.max characters)
RunEnd(it, s, pos) ==
    LET lim == IF it.max = -1 \/ pos + it.max > Len(s) + 1
               THEN Len(s) + 1 ELSE pos + it.max
    IN CHOOSE j \in pos..lim :
         /\ j = lim \/ ~InClass(it, s[j])
         /\ \A c \in pos..(j - 1) : InClass(it, s[c])

\* the positions a repetition can end at when it starts at pos
RepEnds(it, s, pos) == (pos + it.min)..RunEnd(it, s, pos)

\* rows[1] tells from which positions the items after `it` can match (and
\* rows[1 + n] the same for the items n further on): the row of `it`
ItemRow(it, s, rows) ==
    LET next == rows[1]
        row  == [pos \in 1..(Len(s) + 1) |->
                  CASE it.k = "bol" ->
                         (pos = 1 \/ s[pos - 1] = "\n") /\ next[pos]
                    [] it.k = "eol" ->
                         /\ pos = Len(s) + 1 \/ s[pos] = "\n"
                         /\ next[pos]
                    [] it.k \in {"open", "close"} -> next[pos]
                    [] it.k = "opt" -> next[pos] \/ rows[1 + it.n][pos]
                    [] it.k = "rep" ->
                         \E e \in RepEnds(it, s, pos) : next[e]]
    IN SubSeq(row, 1, Len(s) + 1)

\* the rows of items 1..Len(pat) and of the end of the pattern, given acc,
\* the rows of the items after pi
RECURSIVE Rows(_, _, _, _)
Rows(pat, s, pi, acc) ==
    IF pi = 0 THEN acc
    ELSE LET row == ItemRow(pat[pi], s, acc) IN
         \* the test makes TLC compute the row before it goes on
         IF Len(row) > 0 THEN Rows(pat, s, pi - 1, <<row>> \o acc) ELSE <<>>

Table(pat, s) ==
    Rows(pat, s, Len(pat), <<[pos \in 1..(Len(s) + 1) |-> TRUE]>>)

\* the capture groups of the first match in priority order of items pi..
\* from pos, which exists: T[pi][pos]
RECURSIVE Walk(_, _, _, _, _, _)
Walk(pat, s, T, pi, pos, caps) ==
    IF pi > Len(pat) THEN caps
    ELSE LET it == pat[pi] IN
      CASE it.k \in {"bol", "eol"} -> Walk(pat, s, T, pi + 1, pos, caps)
        [] it.k = "open" ->
             Walk(pat, s, T, pi + 1, pos, [caps EXCEPT ![it.g] = <<pos, 0>>])
        [] it.k = "close" ->
             Walk(pat, s, T, pi + 1, pos,
                  [caps EXCEPT ![it.g] = <<caps[it.g][1], pos>>])
        [] it.k = "opt" ->
             IF T[pi + 1][pos]
             THEN Walk(pat, s, T, pi + 1, pos, caps)
             ELSE Walk(pat, s, T, pi + 1 + it.n, pos, caps)
        [] it.k = "rep" ->
             LET ends == {e \in RepEnds(it, s, pos) : T[pi + 1][e]}
                 e    == IF it.lazy THEN SetMin(ends) ELSE SetMax(ends)
             IN Walk(pat, s, T, pi + 1, e, caps)

NoMatch == [ok |-> FALSE, caps |-> <<>>]

NoCaps(n) == [g \in 1..n |-> <<0, 0>>]

\* pattern.match(s): anchored at the start of s
ReMatch(pat, ngroups, s) ==
    LET T == Table(pat, s) IN
    IF T[1][1]
    THEN [ok |-> TRUE, caps |-> Walk(pat, s, T, 1, 1, NoCaps(ngroups))]
    ELSE NoMatch

\* match.groups()[g-1]: None for a group that took no part in the match
GroupOf(m, s, g) ==
    IF m.caps[g][1] = 0 THEN None
    ELSE Some(SubSeq(s, m.caps[g][1], m.caps[g][2] - 1))

\* re.search(class, s) for a one-character class
ReSearchClass(set, s) == \E c \in 1..Len(s) : s[c] \in set

----------------------------------------------------------------------------
(* ReferenceValidator.__init__: the five patterns, in dictionary order.    *)

OptGroup(items) == <<Opt(Len(items))>> \o items

\* ^\[(\d+)\]\s+(.+?)\.\s*      the common head: number and author block
HeadItems ==
    <<Bol, Ch("[")>> \o Group(1, <<Plus(FALSE, Digits)>>) \o
    <<Ch("]"), Plus(FALSE, Whitespace)>> \o
    Group(2, <<LazyPlus(TRUE, Dot)>>) \o <<Ch("."), Star(FALSE, Whitespace)>>

\* ([^:]+?):\s*([^,]+?),\s*(\d{4})   place: publisher, year as groups g..g+2
PlaceItems(g) ==
    Group(g, <<LazyPlus(TRUE, {":"})>>) \o
    <<Ch(":"), Star(FALSE, Whitespace)>> \o
    Group(g + 1, <<LazyPlus(TRUE, {","})>>) \o
    <<Ch(","), Star(FALSE, Whitespace)>> \o
    Group(g + 2, <<Times(FALSE, Digits, 4)>>)

\* ^\[(\d+)\]\s+(.+?)\.\s*(.+?)\[\d+\]\.\s*([^,]+?),\s*(\d{4})\s*
\*  (?:,\s*([^,]+?)\(([^)]+)\))?\s*:\s*(.+?)\.$
JournalPattern ==
    HeadItems \o Group(3, <<LazyPlus(TRUE, Dot)>>) \o
    <<Ch("["), Plus(FALSE, Digits), Ch("]"), Ch("."),
      Star(FALSE, Whitespace)>> \o
    Group(4, <<LazyPlus(TRUE, {","})>>) \o
    <<Ch(","), Star(FALSE, Whitespace)>> \o
    Group(5, <<Times(FALSE, Digits, 4)>>) \o <<Star(FALSE, Whitespace)>> \o
    OptGroup(<<Ch(","), Star(FALSE, Whitespace)>> \o
             Group(6, <<LazyPlus(TRUE, {","})>>) \o <<Ch("(")>> \o
             Group(7, <<Plus(TRUE, {")"})>>) \o <<Ch(")")>>) \o
    <<Star(FALSE, Whitespace), Ch(":"), Star(FALSE, Whitespace)>> \o
    Group(8, <<LazyPlus(TRUE, Dot)>>) \o <<Ch("."), Eol>>

\* ^\[(\d+)\]\s+(.+?)\.\s*(.+?)\s*[M]\.\s*([^:]+?):\s*([^,]+?),\s*(\d{4})\.
\*  \s*(.+?)\.$
MonographPattern ==
    HeadItems \o Group(3, <<LazyPlus(TRUE, Dot)>>) \o
    <<Star(FALSE, Whitespace), Ch("M"), Ch("."), Star(FALSE, Whitespace)>> \o
    PlaceItems(4) \o <<Ch("."), Star(FALSE, Whitespace)>> \o
    Group(7, <<LazyPlus(TRUE, Dot)>>) \o <<Ch("."), Eol>>

\* ^\[(\d+)\]\s+(.+?)\.\s*(.+?)\s*\[C\]//(.+?)\.\s*(.+?)\.\s*([^:]+?):
\*  \s*([^,]+?),\s*(\d{4})\s*:\s*(.+?)\.$
ConferencePattern ==
    HeadItems \o Group(3, <<LazyPlus(TRUE, Dot)>>) \o
    <<Star(FALSE, Whitespace), Ch("["), Ch("C"), Ch("]"), Ch("/"),
      Ch("/")>> \o
    Group(4, <<LazyPlus(TRUE, Dot)>>) \o <<Ch("."), Star(FALSE, Whitespace)>> \o
    Group(5, <<LazyPlus(TRUE, Dot)>>) \o <<Ch("."), Star(FALSE, Whitespace)>> \o
    PlaceItems(6) \o
    <<Star(FALSE, Whitespace), Ch(":"), Star(FALSE, Whitespace)>> \o
    Group(9, <<LazyPlus(TRUE, Dot)>>) \o <<Ch("."), Eol>>

\* ^\[(\d+)\]\s+(.+?)\.\s*(.+?)\s*[D]\.\s*([^:]+?):\s*([^,]+?),\s*(\d{4})\.$
DissertationPattern ==
    HeadItems \o Group(3, <<LazyPlus(TRUE, Dot)>>) \o
    <<Star(FALSE, Whitespace), Ch("D"), Ch("."), Star(FALSE, Whitespace)>> \o
    PlaceItems(4) \o <<Ch("."), Eol>>

\* ^\[(\d+)\]\s+(.+?)\.\s*(.+?)<emdash>(\d{4}),\s*(.+?)\s*[S]\.\s*([^:]+?):
\*  \s*([^,]+?),\s*(\d{4})\.\s*(.+?)\.$
StandardPattern ==
    HeadItems \o Group(3, <<LazyPlus(TRUE, Dot)>>) \o <<Ch("<emdash>")>> \o
    Group(4, <<Times(FALSE, Digits, 4)>>) \o
    <<Ch(","), Star(FALSE, Whitespace)>> \o
    Group(5, <<LazyPlus(TRUE, Dot)>>) \o
    <<Star(FALSE, Whitespace), Ch("S"), Ch("."), Star(FALSE, Whitespace)>> \o
    PlaceItems(6) \o <<Ch("."), Star(FALSE, Whitespace)>> \o
    Group(9, <<LazyPlus(TRUE, Dot)>>) \o <<Ch("."), Eol>>

\* self.patterns: a dict, iterated in insertion order
patterns ==
    << [name |-> "journal",      pat |-> JournalPattern,      ng |-> 8],
       [name |-> "monograph",    pat |-> MonographPattern,    ng |-> 7],
       [name |-> "conference",   pat |-> ConferencePattern,   ng |-> 9],
       [name |-> "dissertation", pat |-> DissertationPattern, ng |-> 6],
       [name |-> "standard",     pat |-> StandardPattern,     ng |-> 9] >>

\* ^\[(\d+)\]   the sequence-number pattern of parse_reference
IndexPattern == <<Bol, Ch("[")>> \o Group(1, <<Plus(FALSE, Digits)>>) \o <<Ch("]")>>

\* \d+-?\d*    the page-shape pattern of check_common_problems
PagesPattern ==
    <<Plus(FALSE, Digits), Cls(FALSE, {"-"}, 0, 1, FALSE), Star(FALSE, Digits)>>

\* \d{4}       the year-shape pattern of validate_reference
YearPattern == <<Times(FALSE, Digits, 4)>>

----------------------------------------------------------------------------
(* String helpers: str.strip, str.split, str.join, int.                    *)

\* s.strip()
Strip(s) ==
    IF \A c \in 1..Len(s) : s[c] \in Whitespace THEN <<>>
    ELSE LET first == CHOOSE c \in 1..Len(s) :
                        /\ s[c] \notin Whitespace
                        /\ \A j \in 1..(c - 1) : s[j] \in Whitespace
             last  == CHOOSE c \in 1..Len(s) :
                        /\ s[c] \notin Whitespace
                        /\ \A j \in (c + 1)..Len(s) : s[j] \in Whitespace
         IN SubSeq(s, first, last)

\* the j-th smallest element of a set of numbers
Nth(S, j) == CHOOSE p \in S : Cardinality({q \in S : q <= p}) = j

\* s.split(sep) for a one-character sep: empty pieces are kept
Split(s, sep) ==
    LET seps  == {c \in 1..Len(s) : s[c] = sep}
        k     == Cardinality(seps)
        at(j) == IF j = 0 THEN 0 ELSE IF j = k + 1 THEN Len(s) + 1
                 ELSE Nth(seps, j)
    IN SubSeq([j \in 1..(k + 1) |-> SubSeq(s, at(j - 1) + 1, at(j) - 1)],
              1, k + 1)

\* the pieces between the runs of two or more newlines (blank lines)
SplitBlocks(s) ==
    LET starts == {c \in 1..Len(s) :
                     /\ s[c] = "\n" /\ (c = 1 \/ s[c - 1] # "\n")
                     /\ c < Len(s) /\ s[c + 1] = "\n"}
        ends   == {c \in 1..Len(s) :
                     /\ s[c] = "\n" /\ (c = Len(s) \/ s[c + 1] # "\n")
                     /\ c > 1 /\ s[c - 1] = "\n"}
        k      == Cardinality(starts)
        from(j) == IF j = 1 THEN 1 ELSE Nth(ends, j - 1) + 1
        to(j)   == IF j = k + 1 THEN Len(s) ELSE Nth(starts, j) - 1
    IN SubSeq([j \in 1..(k + 1) |-> SubSeq(s, from(j), to(j))], 1, k + 1)

\* re.split(r'\n+', s): the pieces between the maximal runs of newlines
SplitLines(s) ==
    LET starts == {c \in 1..Len(s) :
                     s[c] = "\n" /\ (c = 1 \/ s[c - 1] # "\n")}
        ends   == {c \in 1..Len(s) :
                     s[c] = "\n" /\ (c = Len(s) \/ s[c + 1] # "\n")}
        k      == Cardinality(starts)
        from(j) == IF j = 1 THEN 1 ELSE Nth(ends, j - 1) + 1
        to(j)   == IF j = k + 1 THEN Len(s) ELSE Nth(starts, j) - 1
    IN SubSeq([j \in 1..(k + 1) |-> SubSeq(s, from(j), to(j))], 1, k + 1)

\* sep.join(parts)
RECURSIVE Join(_, _)
Join(parts, sep) ==
    IF parts = <<>> THEN <<>>
    ELSE IF Len(parts) = 1 THEN parts[1]
    ELSE parts[1] \o <<sep>> \o Join(Tail(parts), sep)

DigitValue(c) ==
    CASE c = "0" -> 0 [] c = "1" -> 1 [] c = "2" -> 2 [] c = "3" -> 3
      [] c = "4" -> 4 [] c = "5" -> 5 [] c = "6" -> 6 [] c = "7" -> 7
      [] c = "8" -> 8 [] c = "9" -> 9

\* int(digits): Python integers are unbounded
RECURSIVE ToInt(_)
ToInt(ds) ==
    IF ds = <<>> THEN 0
    ELSE 10 * ToInt(SubSeq(ds, 1, Len(ds) - 1)) + DigitValue(ds[Len(ds)])

----------------------------------------------------------------------------
(* class Reference and the messages.                                       *)

NoIndex == [some |-> FALSE, v |-> 0]

\* Reference.__init__ taking the raw text as the source as well
ReferenceWithSource(raw_text) ==
    [raw_text |-> raw_text, index |-> NoIndex, authors |-> <<>>,
     title |-> <<>>, source |-> raw_text, year |-> None, volume |-> None,
     issue |-> None, pages |-> <<>>, type |-> "", errors |-> <<>>,
     warnings |-> <<>>]

\* Reference.__init__
Reference(raw_text) ==
    [raw_text |-> raw_text, index |-> NoIndex, authors |-> <<>>,
     title |-> <<>>, source |-> <<>>, year |-> None, volume |-> None,
     issue |-> None, pages |-> <<>>, type |-> "", errors |-> <<>>,
     warnings |-> <<>>]

\* The messages, each with the number it is formatted with (0: none):
\*   errors of validate_reference (lines 147..182):
\*     MissingIndex (147), SequenceGap with the expected number (149),
\*     MissingAuthor (153), Truncation (157), MissingTitle (161),
\*     TitleTooLong with the length (163), TypeNotRecognized (167, and the
\*     note of parse_reference, 101), MissingYear (180), YearFormat (182);
\*   warnings of check_common_problems (lines 230..238):
\*     UseAbbreviation (230), PagesFormat (234), LatinAuthorOrder (238).
Msg(m, n) == [m |-> m, n |-> n]

\* f"<label>{ref.index}: {err}", the label being the same for all
Tagged(ref, msg) == [idx |-> ref.index, m |-> msg.m, n |-> msg.n]

RECURSIVE TagAll(_, _)
TagAll(ref, msgs) ==
    IF msgs = <<>> THEN <<>>
    ELSE <<Tagged(ref, Head(msgs))>> \o TagAll(ref, Tail(msgs))

Truthy(opt) == opt.some /\ opt.v # <<>>

----------------------------------------------------------------------------
(* ReferenceValidator: parsing.                                            *)

\* _parse_authors splitting whatever the script of the names
parse_authors_any_script(authors_str) ==
    IF \E c \in 1..Len(authors_str) : authors_str[c] = ","
    THEN LET authors == Split(authors_str, ",") IN
         IF Len(authors) > 3
         THEN SubSeq(authors, 1, 3) \o << <<Deng>> >>
         ELSE authors
    ELSE <<authors_str>>

\* _parse_authors
parse_authors(authors_str) ==
    IF ReSearchClass(CJK, authors_str)
    THEN IF \E c \in 1..Len(authors_str) : authors_str[c] = ","
         THEN LET authors == Split(authors_str, ",") IN
              IF Len(authors) > 3
              THEN SubSeq(authors, 1, 3) \o << <<Deng>> >>
              ELSE authors
         ELSE <<authors_str>>
    ELSE <<authors_str>>

\* _extract_fields: the record with its fields set, and the value it assigns
\* to the validator's own attribute self.publisher (None: it assigns nothing)
extract_fields(ref, m, s) ==
    IF ref.type = "journal"
    THEN [ref |-> [ref EXCEPT
                     !.authors = parse_authors(GroupOf(m, s, 2).v),
                     !.title   = GroupOf(m, s, 3).v,
                     !.source  = GroupOf(m, s, 4).v,
                     !.year    = GroupOf(m, s, 5),
                     !.volume  = IF Truthy(GroupOf(m, s, 6))
                                 THEN GroupOf(m, s, 6) ELSE None,
                     !.issue   = IF Truthy(GroupOf(m, s, 7))
                                 THEN GroupOf(m, s, 7) ELSE None,
                     !.pages   = IF Truthy(GroupOf(m, s, 8))
                                 THEN GroupOf(m, s, 8).v ELSE <<>>],
          publisher |-> None]
    ELSE IF ref.type = "monograph"
    THEN [ref |-> [ref EXCEPT
                     !.authors = parse_authors(GroupOf(m, s, 2).v),
                     !.title   = GroupOf(m, s, 3).v,
                     !.source  = GroupOf(m, s, 4).v,
                     !.year    = GroupOf(m, s, 6),
                     !.pages   = GroupOf(m, s, 7).v],
          publisher |-> GroupOf(m, s, 5)]
    ELSE [ref |-> ref, publisher |-> None]

\* the patterns tried from the last to the first
PatternOrderReversed == <<5, 4, 3, 2, 1>>

\* the order in which parse_reference tries the patterns
PatternOrder == <<1, 2, 3, 4, 5>>

\* the loop of parse_reference from the k-th pattern tried on:
\* the first pattern that matches sets the type and the fields
RECURSIVE TryPatterns(_, _, _)
TryPatterns(ref, s, k) ==
    IF k > Len(PatternOrder) THEN [ref |-> ref, publisher |-> None]
    ELSE LET p == patterns[PatternOrder[k]]
             m == ReMatch(p.pat, p.ng, s)
         IN IF m.ok
            THEN extract_fields([ref EXCEPT !.type = p.name], m, s)
            ELSE TryPatterns(ref, s, k + 1)

\* parse_reference setting the number only when a pattern has matched
parse_reference_index_when_matched(raw_text) ==
    LET ref0    == Reference(raw_text)
        s       == Strip(raw_text)
        im      == ReMatch(IndexPattern, 1, s)
        r       == TryPatterns(ref0, s, 1)
    IN IF r.ref.type = ""
       THEN [r EXCEPT !.ref.errors = Append(@, Msg("TypeNotRecognized", 0))]
       ELSE IF im.ok
       THEN [r EXCEPT !.ref.index = Some(ToInt(GroupOf(im, s, 1).v))]
       ELSE r

\* parse_reference without the note of line 101
parse_reference_no_note(raw_text) ==
    LET ref0    == Reference(raw_text)
        s       == Strip(raw_text)
        im      == ReMatch(IndexPattern, 1, s)
        ref1    == IF im.ok
                   THEN [ref0 EXCEPT !.index = Some(ToInt(GroupOf(im, s, 1).v))]
                   ELSE ref0
    IN TryPatterns(ref1, s, 1)

\* parse_reference: the record returned (ref) and the value assigned to
\* self.publisher on the way (publisher)
parse_reference(raw_text) ==
    LET ref0    == Reference(raw_text)
        s       == Strip(raw_text)
        im      == ReMatch(IndexPattern, 1, s)
        ref1    == IF im.ok
                   THEN [ref0 EXCEPT !.index = Some(ToInt(GroupOf(im, s, 1).v))]
                   ELSE ref0
        r       == TryPatterns(ref1, s, 1)
    IN IF r.ref.type = ""
       THEN [r EXCEPT !.ref.errors = Append(@, Msg("TypeNotRecognized", 0))]
       ELSE r

----------------------------------------------------------------------------
(* ReferenceValidator: validation.                                         *)

TitleLimit == 100
SourceLimit == 20
MaxAuthors == 3

\* the number after that of the record before, when it has one
ExpectedIndexAfterPrevious(refs) ==
    IF Len(refs) > 1 /\ refs[Len(refs) - 1].index.some
    THEN refs[Len(refs) - 1].index.v + 1
    ELSE Len(refs) + 1

\* one more than the number of classified records of self.references
ExpectedIndexOfClassified(refs) ==
    Cardinality({ c \in 1..Len(refs) : refs[c].type # "" }) + 1

\* the sequence number validate_reference expects, given self.references
ExpectedIndex(refs) == Len(refs) + 1

\* validate_reference, the check of the sequence number
IndexErrors(ref, refs) ==
    IF ~ref.index.some THEN <<Msg("MissingIndex", 0)>>
    ELSE IF ref.index.v # ExpectedIndex(refs)
    THEN <<Msg("SequenceGap", ExpectedIndex(refs))>>
    ELSE <<>>

\* validate_reference, the check of the authors
AuthorErrors(ref) ==
    IF ref.authors = <<>> THEN <<Msg("MissingAuthor", 0)>>
    ELSE IF /\ Len(ref.authors) > MaxAuthors
            /\ ~\E c \in 1..Len(ref.authors) : ref.authors[c] = <<Deng>>
    THEN <<Msg("Truncation", 0)>>
    ELSE <<>>

\* the title check with an empty title as its only error
TitleErrorsEmptyOnly(ref) ==
    IF ref.title = <<>> THEN <<Msg("MissingTitle", 0)>> ELSE <<>>

\* validate_reference, the check of the title
TitleErrors(ref) ==
    IF ref.title = <<>> THEN <<Msg("MissingTitle", 0)>>
    ELSE IF Len(ref.title) > TitleLimit
    THEN <<Msg("TitleTooLong", Len(ref.title))>>
    ELSE <<>>

\* validate_reference, the check of the type
TypeErrors(ref) ==
    IF ref.type = "" THEN <<Msg("TypeNotRecognized", 0)>> ELSE <<>>

\* validate_reference, the check of the year
YearErrors(ref) ==
    IF ~Truthy(ref.year) THEN <<Msg("MissingYear", 0)>>
    ELSE IF ~ReMatch(YearPattern, 0, ref.year.v).ok
    THEN <<Msg("YearFormat", 0)>>
    ELSE <<>>

\* validate_reference leaving the field checks out when the type is empty
validate_reference_short_circuit(ref, refs) ==
    IF ref.type = ""
    THEN IndexErrors(ref, refs) \o TypeErrors(ref)
    ELSE IndexErrors(ref, refs) \o AuthorErrors(ref) \o TitleErrors(ref)
         \o TypeErrors(ref) \o YearErrors(ref)

\* validate_reference with the check of the type second
validate_reference_type_second(ref, refs) ==
    IndexErrors(ref, refs) \o TypeErrors(ref) \o AuthorErrors(ref)
    \o TitleErrors(ref) \o YearErrors(ref)

\* validate_reference(ref), reading self.references (refs)
validate_reference(ref, refs) ==
    IndexErrors(ref, refs) \o AuthorErrors(ref) \o TitleErrors(ref)
    \o TypeErrors(ref) \o YearErrors(ref)

\* check_common_problems with the source checked whatever the type
check_common_problems_any_type(ref) ==
    LET w1 == IF ref.source # <<>> /\ Len(ref.source) > SourceLimit
              THEN <<Msg("UseAbbreviation", 0)>> ELSE <<>>
        w2 == IF ref.pages # <<>> /\ ~ReMatch(PagesPattern, 0, ref.pages).ok
              THEN <<Msg("PagesFormat", 0)>> ELSE <<>>
        w3 == IF ref.authors # <<>>
                 /\ ReSearchClass(Latin, Join(ref.authors, " "))
              THEN <<Msg("LatinAuthorOrder", 0)>> ELSE <<>>
    IN w1 \o w2 \o w3

\* check_common_problems(ref)
check_common_problems(ref) ==
    LET w1 == IF ref.type = "journal" /\ ref.source # <<>>
                 /\ Len(ref.source) > SourceLimit
              THEN <<Msg("UseAbbreviation", 0)>> ELSE <<>>
        w2 == IF ref.pages # <<>> /\ ~ReMatch(PagesPattern, 0, ref.pages).ok
              THEN <<Msg("PagesFormat", 0)>> ELSE <<>>
        w3 == IF ref.authors # <<>>
                 /\ ReSearchClass(Latin, Join(ref.authors, " "))
              THEN <<Msg("LatinAuthorOrder", 0)>> ELSE <<>>
    IN w1 \o w2 \o w3


----------------------------------------------------------------------------
(* The inputs: entries in the documented formats (the format comments of   *)
(* __init__ and generate_format_examples), entries in the forms the        *)
(* patterns accept, and entries no pattern accepts.                        *)

MaxEntries == 2

RepeatCh(ch, n) == [k \in 1..n |-> ch]

ZhangSan   == <<"<zhang>", "<san>">>
LiSi       == <<"<li>", "<si>">>
FourAuthors ==
    <<"<zhang>", "<san>", ",", "<li>", "<si>", ",", "<wang>", "<wu>", ",",
      "<zhao>", "<liu>">>
FourAuthorsDeng == FourAuthors \o <<",", Deng>>
SmithJohnson ==
    <<"S", "m", "i", "t", "h", " ", "J", ",", " ", "J", "o", "h", "n", "s",
      "o", "n", " ", "M">>
TitleAI ==
    <<"A", "I", "<fu>", "<neng>", "<jiao>", "<yu>", "<de>", "<shi>",
      "<jian>", "<tan>", "<suo>">>
TitleTi    == <<"<ti>">>
SourceCE   == <<"<ji>", "<suan>", "<ji2>", "<jiao>", "<yu>">>
SourceKan  == <<"<kan>">>
Beijing    == <<"<bei>", "<jing>">>
GaoJiao    == <<"<gao>", "<jiao>">>
Y2023      == <<"2", "0", "2", "3">>
Y2022      == <<"2", "0", "2", "2">>
Pages1218  == <<"1", "2", "-", "1", "8">>
VolIssue(v, n) == <<",", " ">> \o v \o <<"(">> \o n \o <<")">>

\* [n] authors. title[mark]. journal, year<vi>: pages.
\*   mark "J": the documented journal form; a digit: the form the pattern takes
JournalEntry(mark, n, authors, title, source, year, vi, pages) ==
    <<"[", n, "]", " ">> \o authors \o <<".", " ">> \o title \o
    <<"[", mark, "]", ".", " ">> \o source \o <<",", " ">> \o year \o vi \o
    <<":", " ">> \o pages \o <<".">>

\* the documented journal entries, by their fields
DocJournalFields ==
    { [n |-> n, authors |-> a, title |-> TitleAI, source |-> SourceCE,
       year |-> Y2023, volume |-> <<"2", "0">>, issue |-> <<"5">>,
       pages |-> Pages1218] : n \in {"1", "2"}, a \in {ZhangSan, FourAuthors} }

DocJournal(f) ==
    JournalEntry("J", f.n, f.authors, f.title, f.source, f.year,
                 VolIssue(f.volume, f.issue), f.pages)

\* [n] authors. title<mark>. place: publisher, year. pages.
\*   mark "[M]": the documented monograph form; "M": the form the pattern takes
MonographEntry(mark, n, authors, title, place, pub, year, pages) ==
    <<"[", n, "]", " ">> \o authors \o <<".", " ">> \o title \o mark \o
    <<".", " ">> \o place \o <<":", " ">> \o pub \o <<",", " ">> \o year \o
    <<".", " ">> \o pages \o <<".">>

\* [n] authors. title[C]//editor. collection. place: publisher, year: pages.
ConferenceEntry(n, authors, title, editor, coll, place, pub, year, pages) ==
    <<"[", n, "]", " ">> \o authors \o <<".", " ">> \o title \o
    <<"[", "C", "]", "/", "/">> \o editor \o <<".", " ">> \o coll \o
    <<".", " ">> \o place \o <<":", " ">> \o pub \o <<",", " ">> \o year \o
    <<":", " ">> \o pages \o <<".">>

\* [n] authors. title<mark>. place: unit, year.
DissertationEntry(mark, n, authors, title, place, unit, year) ==
    <<"[", n, "]", " ">> \o authors \o <<".", " ">> \o title \o mark \o
    <<".", " ">> \o place \o <<":", " ">> \o unit \o <<",", " ">> \o year \o
    <<".">>

\* [n] body. code<emdash>year, name S. place: publisher, year. pages.
StandardEntry(n, body, code, name, place, pub, year, pages) ==
    <<"[", n, "]", " ">> \o body \o <<".", " ">> \o code \o <<"<emdash>">> \o
    year \o <<",", " ">> \o name \o <<"S", ".", " ">> \o place \o
    <<":", " ">> \o pub \o <<",", " ">> \o year \o <<".", " ">> \o pages \o
    <<".">>

\* "[1] <Zhang San>. AI...[J]. <Computer Education>, 2023, 20(5): 12-18."
DocExample1 ==
    DocJournal([n |-> "1", authors |-> ZhangSan, title |-> TitleAI,
                source |-> SourceCE, year |-> Y2023, volume |-> <<"2", "0">>,
                issue |-> <<"5">>, pages |-> Pages1218])

DocEntries ==
    { DocJournal(f) : f \in DocJournalFields } \cup
    { MonographEntry(<<"[", "M", "]">>, "3", LiSi, TitleTi, Beijing, GaoJiao,
                     Y2022, Pages1218),
      ConferenceEntry("2", <<"<wang>", "<wu>">>, TitleTi,
                      <<"<li>", "<ming>">>, <<"<wen>">>, Beijing, GaoJiao,
                      Y2023, Pages1218) }

\* entries that the journal pattern accepts
AcceptedJournals ==
    { JournalEntry("1", "2", ZhangSan, TitleAI, SourceCE, Y2023,
                   VolIssue(<<"2", "0">>, <<"5">>), Pages1218),
      JournalEntry("1", "1", ZhangSan, TitleTi, SourceKan, Y2023, <<>>,
                   Pages1218),
      JournalEntry("1", "3", FourAuthors, TitleTi, SourceKan, Y2023, <<>>,
                   Pages1218),
      JournalEntry("1", "3", FourAuthorsDeng, TitleTi, SourceKan, Y2023, <<>>,
                   Pages1218),
      JournalEntry("1", "4", SmithJohnson, TitleTi, SourceKan, Y2023,
                   VolIssue(<<"1", "5">>, <<"2">>), <<"x">>),
      JournalEntry("1", "2", ZhangSan, RepeatCh("<ti>", TitleLimit + 1),
                   SourceKan, Y2023, <<>>, <<"1">>),
      JournalEntry("1", "3", ZhangSan, RepeatCh("<ti>", TitleLimit),
                   SourceKan, Y2023, <<>>, <<"1">>),
      JournalEntry("1", "2", LiSi, TitleTi, RepeatCh("<kan>", SourceLimit + 1),
                   Y2023, <<>>, <<"1">>) }

\* entries that the other four patterns accept
AcceptedOthers ==
    { MonographEntry(<<"M">>, "2", LiSi, TitleTi, Beijing, GaoJiao, Y2022,
                     Pages1218),
      MonographEntry(<<"M">>, "2", LiSi, TitleTi,
                     RepeatCh("<bei>", SourceLimit + 1), GaoJiao, Y2022,
                     Pages1218),
      DissertationEntry(<<"D">>, "3", <<"<zhao>", "<liu>">>, <<"<yan>">>,
                        Beijing, <<"<da>", "<xue>">>, Y2023),
      StandardEntry("4", <<"<ju>">>, <<"G", "B">>, <<"<gui>">>, Beijing,
                    <<"<she>">>, Y2022, <<"1">>) }

\* entries that more than one pattern accepts:
\*   [2] A. TM. x[1]. S, 2023: P, 2022. 5.     journal and monograph
\*   [3] A. TM. p: u, 2020. qD. w: r, 2021.    monograph and dissertation
Ambiguous ==
    { <<"[", "2", "]", " ", "A", ".", " ", "T", "M", ".", " ", "x", "[", "1",
        "]", ".", " ", "S", ",", " ", "2", "0", "2", "3", ":", " ", "P", ",",
        " ", "2", "0", "2", "2", ".", " ", "5", ".">>,
      <<"[", "3", "]", " ", "A", ".", " ", "T", "M", ".", " ", "p", ":", " ",
        "u", ",", " ", "2", "0", "2", "0", ".", " ", "q", "D", ".", " ", "w",
        ":", " ", "r", ",", " ", "2", "0", "2", "1", ".">> }

\* entries that no pattern accepts: a URL, and a numbered line
Unrecognized ==
    { <<"h", "t", "t", "p", ":", "/", "/", "a", ".", "c", "/", "x">>,
      <<"[", "2", "]", " ", "x", "y">> }

Pool == DocEntries \cup AcceptedJournals \cup AcceptedOthers \cup Ambiguous
        \cup Unrecognized

\* short entries that the journal pattern accepts, numbered n
Numbered(n) ==
    JournalEntry("1", n, ZhangSan, TitleTi, SourceKan, Y2023, <<>>, Pages1218)

\* the documented example, numbered n
DocNumbered(n) ==
    DocJournal([n |-> n, authors |-> ZhangSan, title |-> TitleAI,
                source |-> SourceCE, year |-> Y2023, volume |-> <<"2", "0">>,
                issue |-> <<"5">>, pages |-> Pages1218])

\* batches of three: numbered 1 2 4, 1 2 3 and 2 3 4
Scenarios ==
    { <<Numbered("1"), Numbered("2"), Numbered("4")>>,
      <<Numbered("1"), Numbered("2"), Numbered("3")>>,
      <<Numbered("2"), Numbered("3"), Numbered("4")>>,
      <<DocNumbered("1"), DocNumbered("2"), DocNumbered("3")>> }

Batches ==
    UNION { [1..n -> Pool] : n \in 0..MaxEntries } \cup Scenarios

\* the entries of a batch, each on a line of its own, sep between them
RECURSIVE JoinText(_, _)
JoinText(batch, sep) ==
    IF batch = <<>> THEN <<>>
    ELSE IF Len(batch) = 1 THEN batch[1]
    ELSE batch[1] \o sep \o JoinText(Tail(batch), sep)

Separators == { <<"\n">>, <<"\n", "\n">> }

Texts == { JoinText(b, sep) : b \in Batches, sep \in Separators }

----------------------------------------------------------------------------
(* parse_reference of every entry of the inputs, computed once.            *)

AllEntries == Pool \cup UNION { {b[k] : k \in 1..Len(b)} : b \in Scenarios }

RECURSIVE SetToSeq(_)
SetToSeq(S) ==
    IF S = {} THEN <<>>
    ELSE LET e == CHOOSE e \in S : TRUE IN <<e>> \o SetToSeq(S \ {e})

EntrySeq == SetToSeq(AllEntries)

ParsedSeq ==
    SubSeq([k \in 1..Len(EntrySeq) |-> parse_reference(EntrySeq[k])],
           1, Len(EntrySeq))

\* parse_reference(entry), tabulated over the entries of the inputs
Parsed(entry) ==
    ParsedSeq[CHOOSE k \in 1..Len(EntrySeq) : EntrySeq[k] = entry]

----------------------------------------------------------------------------
(* The state: a ReferenceValidator, a call of validate_references, and a   *)
(* call of _parse_authors on its own.                                      *)

VARIABLES
    pending,       \* the texts the caller has still to pass
    pc,            \* "idle", "loop" (in the for loop), "done" (returned)
    ref_entries,   \* validate_references: the list re.split returned
    cursor,        \* validate_references: the entry the loop is at
    references,    \* self.references
    publisher,     \* self.publisher (None: the attribute is not set)
    all_errors,    \* validate_references: all_errors
    all_warnings,  \* validate_references: all_warnings
    result,        \* the dictionary the last call returned
    authors_arg,   \* _parse_authors called on its own: the argument
    authors_ret,   \* _parse_authors called on its own: the list returned
    references_text, \* validate_references: the argument of the call
    returned,      \* the caller's list of the calls that have returned:
                   \*   the text passed and the dictionary received
    wc,            \* validate_wordcount.py: the text and the limit passed,
                   \*   and what its functions have returned
    injector       \* inject_content: the content passed, the body of the
                   \*   document and the statement reached

vars == <<pending, pc, ref_entries, cursor, references, publisher, all_errors,
          all_warnings, result, authors_arg, authors_ret, references_text,
          returned, wc, injector>>

\* no function of validate_wordcount.py has been called
NoWordCount ==
    [text |-> <<>>, limit |-> 0, count |-> None, check |-> None,
     paper |-> None]

\* no WordDocumentInjector has been made
NoInjector == [content |-> <<>>, body |-> <<>>, at |-> "none", section |-> 1]

NoResult ==
    [valid |-> FALSE, total_references |-> 0, errors |-> <<>>,
     warnings |-> <<>>, references |-> <<>>]

\* the dictionary with valid computed from the warnings as well
ReportCountingWarnings(errs, warns, refs) ==
    [valid |-> Len(errs) = 0 /\ Len(warns) = 0,
     total_references |-> Len(refs),
     errors |-> errs, warnings |-> warns, references |-> refs]

\* the dictionary validate_references returns
Report(errs, warns, refs) ==
    [valid |-> Len(errs) = 0,
     total_references |-> Len(refs),
     errors |-> errs, warnings |-> warns, references |-> refs]

Init ==
    /\ pending \in { <<t>> : t \in Texts }
    /\ pc = "idle"
    /\ ref_entries = <<>>
    /\ cursor = 1
    /\ references = <<>>
    /\ publisher = None
    /\ all_errors = <<>>
    /\ all_warnings = <<>>
    /\ result = NoResult
    /\ authors_arg = None
    /\ authors_ret = None
    /\ references_text = <<>>
    /\ returned = <<>>
    /\ wc = NoWordCount
    /\ injector = NoInjector

\* validate_references up to the loop, without self.references = []
CallKeepingReferences ==
    /\ pc \in {"idle", "done"}
    /\ pending # <<>>
    /\ pending' = Tail(pending)
    /\ references_text' = Head(pending)
    /\ all_errors' = <<>>
    /\ all_warnings' = <<>>
    /\ ref_entries' = SplitLines(Strip(Head(pending)))
    /\ cursor' = 1
    /\ pc' = "loop"
    /\ UNCHANGED <<references, publisher, result, authors_arg, authors_ret,
                   returned, wc, injector>>

\* validate_references(references_text), up to the loop
Call ==
    /\ pc \in {"idle", "done"}
    /\ pending # <<>>
    /\ pending' = Tail(pending)
    /\ references_text' = Head(pending)
    /\ references' = <<>>
    /\ all_errors' = <<>>
    /\ all_warnings' = <<>>
    /\ ref_entries' = SplitLines(Strip(Head(pending)))
    /\ cursor' = 1
    /\ pc' = "loop"
    /\ UNCHANGED <<publisher, result, authors_arg, authors_ret, returned, wc,
                   injector>>

\* one round of the loop on an entry that is empty once stripped: continue
SkipEntry ==
    /\ pc = "loop"
    /\ cursor <= Len(ref_entries)
    /\ Strip(ref_entries[cursor]) = <<>>
    /\ cursor' = cursor + 1
    /\ UNCHANGED <<pending, pc, ref_entries, references, publisher,
                   all_errors, all_warnings, result, authors_arg,
                   authors_ret, references_text, returned, wc,
                   injector>>

\* one round of the loop on any other entry: parse, append, validate, warn
ProcessEntry ==
    /\ pc = "loop"
    /\ cursor <= Len(ref_entries)
    /\ Strip(ref_entries[cursor]) # <<>>
    /\ LET entry    == Strip(ref_entries[cursor])
           parsed   == Parsed(entry)
           ref      == parsed.ref
           refs     == Append(references, ref)
           errors   == validate_reference(ref, refs)
           warnings == check_common_problems(ref)
       IN /\ references' = refs
          /\ publisher' = IF parsed.publisher.some
                          THEN parsed.publisher ELSE publisher
          /\ all_errors' = all_errors \o TagAll(ref, errors)
          /\ all_warnings' = all_warnings \o TagAll(ref, warnings)
    /\ cursor' = cursor + 1
    /\ UNCHANGED <<pending, pc, ref_entries, result, authors_arg,
                   authors_ret, references_text, returned, wc,
                   injector>>

\* the return statement of validate_references
Return ==
    /\ pc = "loop"
    /\ cursor > Len(ref_entries)
    /\ result' = Report(all_errors, all_warnings, references)
    /\ returned' = Append(returned,
                          [text |-> references_text,
                           result |-> Report(all_errors, all_warnings,
                                             references)])
    /\ pc' = "done"
    /\ UNCHANGED <<pending, ref_entries, cursor, references, publisher,
                   all_errors, all_warnings, authors_arg, authors_ret,
                   references_text, wc,
                   injector>>

Next == Call \/ SkipEntry \/ ProcessEntry \/ Return

Spec == Init /\ [][Next]_vars

----------------------------------------------------------------------------
(* One validator called up to MaxCalls times, on texts that may repeat.    *)

MaxCalls == 3

RepeatTexts ==
    { <<>>,
      JournalEntry("1", "2", LiSi, TitleTi, RepeatCh("<kan>", SourceLimit + 1),
                   Y2023, <<>>, <<"1">>),
      MonographEntry(<<"M">>, "2", LiSi, TitleTi, Beijing, GaoJiao, Y2022,
                     Pages1218),
      <<"h", "t", "t", "p", ":", "/", "/", "a", ".", "c", "/", "x">>,
      DocExample1,
      JoinText(<<Numbered("2"), Numbered("3"), Numbered("4")>>, <<"\n">>),
      JoinText(<<Numbered("1"), Numbered("2"), Numbered("3")>>, <<"\n">>) }

InitRepeat ==
    /\ pending \in UNION { [1..n -> RepeatTexts] : n \in 1..MaxCalls }
    /\ pc = "idle"
    /\ ref_entries = <<>>
    /\ cursor = 1
    /\ references = <<>>
    /\ publisher = None
    /\ all_errors = <<>>
    /\ all_warnings = <<>>
    /\ result = NoResult
    /\ authors_arg = None
    /\ authors_ret = None
    /\ references_text = <<>>
    /\ returned = <<>>
    /\ wc = NoWordCount
    /\ injector = NoInjector

SpecRepeat == InitRepeat /\ [][Next]_vars

----------------------------------------------------------------------------
(* _parse_authors called on its own, on author fields of up to MaxNames    *)
(* names: names in ideographs, names in Latin letters, and the marker.     *)

MaxNames == 5

Names ==
    { ZhangSan, <<"<li>">>, <<"S", "m", "i", "t", "h", " ", "J">>, <<"L">>,
      <<Deng>> }

AuthorFields ==
    { Join(names, ",") : names \in UNION { [1..n -> Names] : n \in 1..MaxNames } }

InitAuthors ==
    /\ authors_arg \in { Some(a) : a \in AuthorFields }
    /\ authors_ret = None
    /\ pending = <<>>
    /\ pc = "idle"
    /\ ref_entries = <<>>
    /\ cursor = 1
    /\ references = <<>>
    /\ publisher = None
    /\ all_errors = <<>>
    /\ all_warnings = <<>>
    /\ result = NoResult
    /\ references_text = <<>>
    /\ returned = <<>>
    /\ wc = NoWordCount
    /\ injector = NoInjector

\* self._parse_authors(authors_str)
ParseAuthors ==
    /\ authors_arg.some
    /\ ~authors_ret.some
    /\ authors_ret' = Some(parse_authors(authors_arg.v))
    /\ UNCHANGED <<pending, pc, ref_entries, cursor, references, publisher,
                   all_errors, all_warnings, result, authors_arg,
                   references_text, returned, wc,
                   injector>>

NextAuthors == ParseAuthors

SpecAuthors == InitAuthors /\ [][NextAuthors]_vars

----------------------------------------------------------------------------
(* validate_wordcount.py: count_text_words, check_word_limit,              *)
(* analyze_content_parts and validate_paper.                               *)

WordLimit       == 6000
TitleLineMax    == 30
AbstractLineMin == 10
AbstractMin     == 150
AbstractMax     == 350
BodyMax         == 4500

\* the characters of the punctuation class of count_text_words, the
\* full-width ones and the ellipsis as tags; the apostrophes of the source
\* line close and reopen the string literal, so the class holds none
Punctuation ==
    {"<fcomma>", "<fstop>", "<fbang>", "<fquestion>", "<fsemicolon>",
     "<fcolon>", "\"", "<flparen>", "<frparen>", "<fdun>", "<flbracket>",
     "<frbracket>", "[", "]", "{", "}", "-", "<ellipsis>", "<emdash>"}

\* \w: the characters between which \b finds no boundary
WordChars == Latin \cup Digits \cup CJK \cup {"_"}

\* int(n / 2.5), for n >= 0
EstimatedWords(n) == (2 * n) \div 5

\* the matches of \b[a-zA-Z]+\b: the runs of letters with no word character
\* before or after them, by the place where they begin
EnglishWordStarts(t) ==
    { c \in 1..Len(t) :
        /\ t[c] \in Latin
        /\ (c = 1 \/ t[c - 1] \notin WordChars)
        /\ \E j \in c..Len(t) :
             /\ \A k \in c..j : t[k] \in Latin
             /\ (j = Len(t) \/ t[j + 1] \notin WordChars) }

count_text_words(text) ==
    LET t == Strip(text) IN
    [total_chars |-> Len(t),
     chinese_count |-> Cardinality({ c \in 1..Len(t) : t[c] \in CJK }),
     english_word_count |-> Cardinality(EnglishWordStarts(t)),
     digit_count |-> Cardinality({ c \in 1..Len(t) : t[c] \in Digits }),
     punctuation_count |->
         Cardinality({ c \in 1..Len(t) : t[c] \in Punctuation }),
     plain_text_chars |-> Len(t),
     estimated_word_count |-> EstimatedWords(Len(t))]

\* check_word_limit: the flag and the detail; the percentage of the detail
\* and the message are formatted from these and are left out
check_word_limit(count_result, limit) ==
    LET estimated_word_count == count_result.estimated_word_count IN
    IF estimated_word_count <= limit
    THEN [ok |-> TRUE, word_count |-> estimated_word_count, limit |-> limit,
          excess |-> 0]
    ELSE [ok |-> FALSE, word_count |-> estimated_word_count, limit |-> limit,
          excess |-> estimated_word_count - limit]

\* sub in line
Contains(line, sub) ==
    \E c \in 1..(Len(line) - Len(sub) + 1) :
        SubSeq(line, c, c + Len(sub) - 1) = sub

YanJiu     == <<"<yan>", "<jiu>">>
ZhaiYao    == <<"<zhai>", "<yao>">>
GuanJianCi == <<"<guan>", "<jian4>", "<ci>">>
CanKao     == <<"<can>", "<kao>">>

\* the dictionary analyze_content_parts starts from
NoParts ==
    [title |-> <<>>, abstract |-> <<>>, keywords |-> <<>>, body |-> <<>>,
     refs |-> <<>>]

\* the loop of analyze_content_parts from the k-th line on
RECURSIVE ScanLines(_, _, _, _)
ScanLines(lines, k, parts, current_part) ==
    IF k > Len(lines) THEN parts
    ELSE LET line == Strip(lines[k]) IN
         IF line = <<>> THEN ScanLines(lines, k + 1, parts, current_part)
         ELSE IF /\ current_part = "body" /\ parts.title = <<>>
                 /\ Len(line) < TitleLineMax /\ ~Contains(line, YanJiu)
                 /\ line[1] # "<di>"
         THEN ScanLines(lines, k + 1, [parts EXCEPT !.title = line],
                        current_part)
         ELSE IF Contains(line, ZhaiYao) /\ Len(line) > AbstractLineMin
         THEN ScanLines(lines, k + 1, [parts EXCEPT !.abstract = line],
                        "abstract")
         ELSE IF Contains(line, GuanJianCi)
         THEN ScanLines(lines, k + 1, [parts EXCEPT !.keywords = line],
                        "keywords")
         ELSE IF Contains(line, CanKao)
         THEN ScanLines(lines, k + 1, [parts EXCEPT !.refs = line], "refs")
         ELSE ScanLines(lines, k + 1,
                        [parts EXCEPT ![current_part] = @ \o line \o <<"\n">>],
                        current_part)

analyze_content_parts(text) == ScanLines(Split(text, "\n"), 1, NoParts, "body")

\* validate_paper: the dictionary returned, or raised when line 188 takes
\* len() of the integer chinese_count, which it does for a counted title
validate_paper(text, limit) ==
    LET count_result == count_text_words(text)
        checked      == check_word_limit(count_result, limit)
        parts_result == analyze_content_parts(text)
        counted      == { p \in DOMAIN parts_result :
                            Strip(parts_result[p]) # <<>> }
        parts_count  == [p \in counted |->
                           count_text_words(parts_result[p]).estimated_word_count]
        s1 == IF ~checked.ok THEN <<"OverLimit">> ELSE <<>>
        s2 == IF "abstract" \in counted
                 /\ (parts_count["abstract"] < AbstractMin
                     \/ parts_count["abstract"] > AbstractMax)
              THEN <<"AbstractLength">> ELSE <<>>
        s3 == IF "body" \in counted /\ parts_count["body"] > BodyMax
              THEN <<"BodyTooLong">> ELSE <<>>
    IN IF "title" \in counted
       THEN [raised |-> TRUE, valid |-> FALSE, word_count |-> 0,
             parts |-> <<>>, suggestions |-> <<>>]
       ELSE [raised |-> FALSE, valid |-> checked.ok,
             word_count |-> count_result.estimated_word_count,
             parts |-> parts_count, suggestions |-> s1 \o s2 \o s3]

\* the texts: every text of up to MaxWcLen characters of WcAlphabet, texts
\* of one character repeated about WordLimit times and about as many times
\* as give an estimate of WordLimit, and texts with the lines that
\* analyze_content_parts tells apart
MaxWcLen == 3

WcAlphabet == {"<ti>", "a", "1", " ", "-"}

ShortTexts == UNION { [1..n -> WcAlphabet] : n \in 0..MaxWcLen }

LongTexts ==
    { RepeatCh("<ti>", n) :
        n \in {WordLimit, WordLimit + 1} \cup
              { (5 * WordLimit) \div 2 + d : d \in 0..3 } }

SectionTexts ==
    { YanJiu \o <<"a", "b", "\n", "<di>", "a">>,
      RepeatCh("<ti>", TitleLineMax) \o <<"\n">> \o ZhaiYao
        \o RepeatCh("<ti>", TitleLineMax) \o <<"\n">>
        \o RepeatCh("<ti>", AbstractMin),
      YanJiu \o <<"\n">> \o GuanJianCi \o <<"a", "\n">> \o CanKao
        \o <<"\n", "[", "1", "]">>,
      ZhaiYao \o <<"\n", "a", "b">> }

WcTexts == ShortTexts \cup LongTexts \cup SectionTexts

WcLimits == {1, 2, WordLimit}

InitWordCount ==
    /\ wc \in { [text |-> t, limit |-> l, count |-> None, check |-> None,
                 paper |-> None] : t \in WcTexts, l \in WcLimits }
    /\ injector = NoInjector
    /\ pending = <<>>
    /\ pc = "idle"
    /\ ref_entries = <<>>
    /\ cursor = 1
    /\ references = <<>>
    /\ publisher = None
    /\ all_errors = <<>>
    /\ all_warnings = <<>>
    /\ result = NoResult
    /\ authors_arg = None
    /\ authors_ret = None
    /\ references_text = <<>>
    /\ returned = <<>>

\* count_result = count_text_words(text)
CountTextWords ==
    /\ ~wc.count.some
    /\ wc' = [wc EXCEPT !.count = Some(count_text_words(wc.text))]
    /\ UNCHANGED <<pending, pc, ref_entries, cursor, references, publisher,
                   all_errors, all_warnings, result, authors_arg,
                   authors_ret, references_text, returned,
                   injector>>

\* check_word_limit(count_result, limit)
CheckWordLimit ==
    /\ wc.count.some
    /\ ~wc.check.some
    /\ wc' = [wc EXCEPT !.check = Some(check_word_limit(wc.count.v, wc.limit))]
    /\ UNCHANGED <<pending, pc, ref_entries, cursor, references, publisher,
                   all_errors, all_warnings, result, authors_arg,
                   authors_ret, references_text, returned,
                   injector>>

\* validate_paper(text, limit)
ValidatePaper ==
    /\ ~wc.paper.some
    /\ wc' = [wc EXCEPT !.paper = Some(validate_paper(wc.text, wc.limit))]
    /\ UNCHANGED <<pending, pc, ref_entries, cursor, references, publisher,
                   all_errors, all_warnings, result, authors_arg,
                   authors_ret, references_text, returned,
                   injector>>

NextWordCount == CountTextWords \/ CheckWordLimit \/ ValidatePaper

SpecWordCount == InitWordCount /\ [][NextWordCount]_vars

----------------------------------------------------------------------------
(* inject_content.py: WordDocumentInjector. The body of the document is     *)
(* the list of the children of w:body; a child is given by its tag, the     *)
(* style of its run and its text.                                           *)

\* a paragraph the injector builds: ET.Element('w:p') with one run
Paragraph(style, text) == [tag |-> "w:p", style |-> style, text |-> text]

\* the heading of the references block
CanKaoWenXian == <<"<can>", "<kao>", "<wen>", "<xian>">>

\* content.split('\n\n'): the separators are found from left to right, so
\* in a run of newlines every second one begins a separator
SplitParagraphs(s) ==
    LET RunStart(p) ==
            CHOOSE q \in 1..p :
                /\ \A c \in q..p : s[c] = "\n"
                /\ (q = 1 \/ s[q - 1] # "\n")
        starts == { p \in 1..(Len(s) - 1) :
                      /\ s[p] = "\n"
                      /\ s[p + 1] = "\n"
                      /\ (p - RunStart(p)) % 2 = 0 }
        k      == Cardinality(starts)
        from(j) == IF j = 1 THEN 1 ELSE Nth(starts, j - 1) + 2
        to(j)   == IF j = k + 1 THEN Len(s) ELSE Nth(starts, j) - 1
    IN SubSeq([j \in 1..(k + 1) |-> SubSeq(s, from(j), to(j))], 1, k + 1)

\* if para_text.strip()
HasText(para_text) == Strip(para_text) # <<>>

\* inject_section: the paragraphs built from the content of a section
SectionParagraphs(content) ==
    IF content = <<>> THEN <<>>
    ELSE LET kept == SelectSeq(SplitParagraphs(content), HasText)
         IN SubSeq([j \in 1..Len(kept) |-> Paragraph("", Strip(kept[j]))],
                   1, Len(kept))

\* inject_references: the paragraphs built from the entries
ReferenceParagraphs(refs) ==
    SubSeq([j \in 1..Len(refs) |-> Paragraph("", refs[j])], 1, Len(refs))

\* body.insert(0, p)
inject_title(body, title) == <<Paragraph("Heading1", title)>> \o body

\* body.append(p); body.append(p2)
inject_abstract(body, abstract) ==
    body \o <<Paragraph("Subtitle", ZhaiYao), Paragraph("", abstract)>>

inject_keywords(body, keywords) ==
    body \o <<Paragraph("Subtitle", GuanJianCi), Paragraph("", keywords)>>

\* the content paragraphs are appended in the loop, the heading p after it
inject_section(body, section_name, content) ==
    body \o SectionParagraphs(content)
         \o <<Paragraph("Heading2", section_name)>>

\* the heading p is built and never appended
inject_references(body, refs) == body \o ReferenceParagraphs(refs)

\* the inputs: the bodies of templates, and the dictionaries with any of
\* the keys, with up to MaxSections sections and up to MaxInjectRefs
\* references
MaxSections == 2
MaxInjectRefs == 2

TemplateBodies ==
    { <<[tag |-> "{w}sectPr", style |-> "", text |-> <<>>]>>,
      <<[tag |-> "{w}p", style |-> "", text |-> <<"T", "0">>],
        [tag |-> "{w}sectPr", style |-> "", text |-> <<>>]>> }

\* the contents of a section: empty, blank, of one paragraph, with a
\* separator at either end, and of paragraphs separated by two newlines,
\* by three, and by a blank paragraph
SectionContents ==
    { <<>>,
      <<" ">>,
      <<"x">>,
      <<"x", "\n", "y">>,
      <<"\n", "\n", "x">>,
      <<"x", "\n", "\n">>,
      <<"x", "\n", "\n", "y">>,
      <<"x", "\n", "\n", "\n", "y">>,
      <<"x", "\n", "\n", " ", "\n", "\n", "y">> }

SectionNumerals == <<"1", "2", "3", "4">>
SectionName(k) == <<"s", SectionNumerals[k]>>

SectionDicts ==
    UNION { { [k \in 1..n |-> [name |-> SectionName(k), content |-> f[k]]] :
                f \in [1..n -> SectionContents] } : n \in 0..MaxSections }

ReferenceLists ==
    { [k \in 1..n |-> <<"r", SectionNumerals[k]>>] : n \in 0..MaxInjectRefs }

Optional(S) == {None} \cup { Some(x) : x \in S }

Contents ==
    [title : Optional({<<"T">>}), abstract : Optional({<<"A">>}),
     keywords : Optional({<<"K">>}), sections : Optional(SectionDicts),
     references : Optional(ReferenceLists)]

\* inject_content has loaded the document and found its body
InitInject ==
    /\ injector \in { [content |-> c, body |-> b, at |-> "title",
                       section |-> 1] :
                      c \in Contents, b \in TemplateBodies }
    /\ wc = NoWordCount
    /\ pending = <<>>
    /\ pc = "idle"
    /\ ref_entries = <<>>
    /\ cursor = 1
    /\ references = <<>>
    /\ publisher = None
    /\ all_errors = <<>>
    /\ all_warnings = <<>>
    /\ result = NoResult
    /\ authors_arg = None
    /\ authors_ret = None
    /\ references_text = <<>>
    /\ returned = <<>>

OthersUnchanged ==
    UNCHANGED <<pending, pc, ref_entries, cursor, references, publisher,
                all_errors, all_warnings, result, authors_arg, authors_ret,
                references_text, returned, wc>>

\* if 'title' in content: self.inject_title(body, content['title'])
InjectTitle ==
    /\ injector.at = "title"
    /\ injector' =
         [injector EXCEPT
            !.body = IF injector.content.title.some
                     THEN inject_title(@, injector.content.title.v) ELSE @,
            !.at = "abstract"]
    /\ OthersUnchanged

\* if 'abstract' in content: self.inject_abstract(body, content['abstract'])
InjectAbstract ==
    /\ injector.at = "abstract"
    /\ injector' =
         [injector EXCEPT
            !.body = IF injector.content.abstract.some
                     THEN inject_abstract(@, injector.content.abstract.v)
                     ELSE @,
            !.at = "keywords"]
    /\ OthersUnchanged

\* if 'keywords' in content: self.inject_keywords(body, content['keywords'])
InjectKeywords ==
    /\ injector.at = "keywords"
    /\ injector' =
         [injector EXCEPT
            !.body = IF injector.content.keywords.some
                     THEN inject_keywords(@, injector.content.keywords.v)
                     ELSE @,
            !.at = "sections"]
    /\ OthersUnchanged

\* the sections the loop of inject_content goes through
SectionsOf(content) ==
    IF content.sections.some THEN content.sections.v ELSE <<>>

\* one round of the loop over content['sections'].items()
InjectSection ==
    /\ injector.at = "sections"
    /\ injector.section <= Len(SectionsOf(injector.content))
    /\ LET item == SectionsOf(injector.content)[injector.section]
       IN injector' =
            [injector EXCEPT
               !.body = inject_section(@, item.name, item.content),
               !.section = @ + 1]
    /\ OthersUnchanged

\* the loop is over, or there is no key 'sections'
LeaveSections ==
    /\ injector.at = "sections"
    /\ injector.section > Len(SectionsOf(injector.content))
    /\ injector' = [injector EXCEPT !.at = "references"]
    /\ OthersUnchanged

\* if 'references' in content: self.inject_references(...); return tree
InjectReferences ==
    /\ injector.at = "references"
    /\ injector' =
         [injector EXCEPT
            !.body = IF injector.content.references.some
                     THEN inject_references(@, injector.content.references.v)
                     ELSE @,
            !.at = "done"]
    /\ OthersUnchanged

NextInject ==
    \/ InjectTitle
    \/ InjectAbstract
    \/ InjectKeywords
    \/ InjectSection
    \/ LeaveSections
    \/ InjectReferences

SpecInject == InitInject /\ [][NextInject]_vars

----------------------------------------------------------------------------
(* What the properties below read off a step and off a state.              *)

\* a step of the loop that appends a record
Processing == pc = "loop" /\ Len(references') = Len(references) + 1

\* the record that step appends, and its 1-based position in the batch
NewRef   == references'[Len(references')]
Position == Len(references')

\* the errors and the warnings that step reports
NewErrors   == SubSeq(all_errors', Len(all_errors) + 1, Len(all_errors'))
NewWarnings == SubSeq(all_warnings', Len(all_warnings) + 1, Len(all_warnings'))

\* the names of a list of messages, and how many of them are named m
MsgNames(msgs) == [c \in 1..Len(msgs) |-> msgs[c].m]
Count(msgs, m) == Cardinality({ c \in 1..Len(msgs) : msgs[c].m = m })

\* the raw texts of a list of records
RawTexts(refs) == [c \in 1..Len(refs) |-> refs[c].raw_text]

\* the entries of the inputs whose author field lists four authors and no
\* marker, and the same entries with the marker added
FourAuthorEntries ==
    { JournalEntry("1", "3", FourAuthors, TitleTi, SourceKan, Y2023, <<>>,
                   Pages1218) } \cup
    { DocJournal(f) : f \in { g \in DocJournalFields : g.authors = FourAuthors } }

FourAuthorDengEntries ==
    { JournalEntry("1", "3", FourAuthorsDeng, TitleTi, SourceKan, Y2023, <<>>,
                   Pages1218) }

\* batches of entries in the documented formats, numbered from [1]
DocumentedBatches ==
    { <<DocExample1>>,
      <<DocNumbered("1"), DocNumbered("2")>>,
      <<DocNumbered("1"), DocNumbered("2"), DocNumbered("3")>> }

\* the order of the recognizers, by name
RecognizerOrder ==
    <<"journal", "monograph", "conference", "dissertation", "standard">>

PatternNamed(name) ==
    patterns[CHOOSE k \in 1..Len(patterns) : patterns[k].name = name]

\* the places in RecognizerOrder of the recognizers that match each entry of
\* the inputs, computed once
MatchingSeq ==
    SubSeq([k \in 1..Len(EntrySeq) |->
              { r \in 1..Len(RecognizerOrder) :
                  ReMatch(PatternNamed(RecognizerOrder[r]).pat,
                          PatternNamed(RecognizerOrder[r]).ng,
                          Strip(EntrySeq[k])).ok }],
           1, Len(EntrySeq))

Matching(entry) ==
    MatchingSeq[CHOOSE k \in 1..Len(EntrySeq) : EntrySeq[k] = entry]

\* the entries of ref_entries before the cursor that are not empty
EntriesRead ==
    { c \in 1..Len(ref_entries) : c < cursor /\ Strip(ref_entries[c]) # <<>> }

----------------------------------------------------------------------------
(* The properties.                                                         *)

\* C1: every record parsed from an entry in the documented journal form
\* "[n] authors. title[J]. journal, year, volume(issue): pages." has the
\* type journal and the title, source, year, volume, issue and pages of the
\* entry, and a single author gives a one-element author list.
C1_DocumentedJournalParsed ==
    \A c \in 1..Len(references) : \A f \in DocJournalFields :
        references[c].raw_text = DocJournal(f) =>
            /\ references[c].type = "journal"
            /\ references[c].title = f.title
            /\ references[c].source = f.source
            /\ references[c].year = Some(f.year)
            /\ references[c].volume = Some(f.volume)
            /\ references[c].issue = Some(f.issue)
            /\ references[c].pages = f.pages
            /\ (f.authors = ZhangSan => references[c].authors = <<ZhangSan>>)

\* C2: the record appended at position k of the batch, when it declares a
\* number, gets a sequence error if and only if that number differs from k.
C2_SequenceErrorIffNumberDiffers ==
    [][Processing /\ NewRef.index.some =>
         (Count(NewErrors, "SequenceGap") > 0 <=> NewRef.index.v # Position)]_vars

\* C3: a returned call on a batch of entries in the documented formats,
\* numbered consecutively from [1], has valid true and no errors.
C3_DocumentedBatchValid ==
    (pc = "done" /\ RawTexts(result.references) \in DocumentedBatches) =>
        (result.valid /\ result.errors = <<>>)

\* C4 (as the code has it): a record of empty type gets, after the error on
\* its number if there is one, the four errors missing author, missing
\* title, type not recognized and missing year, in that order, and no
\* warning.
C4_UnrecognizedGetsFieldErrors ==
    [][Processing /\ NewRef.type = "" =>
         /\ MsgNames(NewErrors) \in
              { pre \o <<"MissingAuthor", "MissingTitle", "TypeNotRecognized",
                         "MissingYear">> :
                pre \in { <<>>, <<"MissingIndex">>, <<"SequenceGap">> } }
         /\ NewWarnings = <<>>]_vars

\* C4 as stated: a record of empty type gets the error type not recognized
\* and, besides an error on its number, no other error and no warning.
C4_UnrecognizedShortCircuits ==
    [][Processing /\ NewRef.type = "" =>
         /\ MsgNames(NewErrors) \in
              { pre \o <<"TypeNotRecognized">> :
                pre \in { <<>>, <<"MissingIndex">>, <<"SequenceGap">> } }
         /\ NewWarnings = <<>>]_vars

\* a record of empty type has been appended and reported on
C4_Witness ==
    /\ pc = "done"
    /\ \E c \in 1..Len(result.references) : result.references[c].type = ""
    /\ Count(result.errors, "TypeNotRecognized") > 0
    /\ Count(result.errors, "MissingAuthor") > 0

\* C5: the record of an entry listing four authors and no marker gets
\* exactly one truncation error, and the record of the same entry with the
\* marker added gets none.
C5_TruncationReported ==
    [][Processing =>
         /\ NewRef.raw_text \in FourAuthorEntries =>
                Count(NewErrors, "Truncation") = 1
         /\ NewRef.raw_text \in FourAuthorDengEntries =>
                Count(NewErrors, "Truncation") = 0]_vars

\* what splitting an author field on the comma gives: the tokens, or the
\* first three of them and the marker when there are more than three
SplitAuthors(field) ==
    LET tokens == Split(field, ",") IN
    IF Len(tokens) > MaxAuthors
    THEN SubSeq(tokens, 1, MaxAuthors) \o << <<Deng>> >>
    ELSE tokens

HasCJK(field) == \E c \in 1..Len(field) : field[c] \in CJK

\* C6 (as the code has it): _parse_authors splits an author field on the
\* comma only when the field holds an ideograph: then more than three tokens
\* give the first three and one marker, and fewer give the tokens unchanged;
\* a field with no ideograph comes back whole, as a one-element list.
C6_SplitsOnlyWithIdeograph ==
    (authors_arg.some /\ authors_ret.some) =>
        authors_ret.v = IF HasCJK(authors_arg.v)
                        THEN SplitAuthors(authors_arg.v)
                        ELSE <<authors_arg.v>>

\* C6 as stated: _parse_authors splits every author field, in ideographs or
\* in Latin letters, on the comma.
C6_SplitsEveryField ==
    (authors_arg.some /\ authors_ret.some) =>
        authors_ret.v = SplitAuthors(authors_arg.v)

\* a field of more than three names in Latin letters, returned whole
C6_Witness ==
    /\ authors_arg.some /\ authors_ret.some
    /\ ~HasCJK(authors_arg.v)
    /\ Len(Split(authors_arg.v, ",")) > MaxAuthors
    /\ authors_ret.v = <<authors_arg.v>>

\* C7: the dictionary returned has valid true if and only if its errors are
\* empty, whatever its warnings, and total_references is the number of
\* records, one for each entry that is not empty.
C7_ValidIffNoErrors ==
    pc = "done" =>
        /\ result.valid <=> (result.errors = <<>>)
        /\ result.total_references = Len(result.references)
        /\ result.total_references = Cardinality(EntriesRead)

\* a returned call with valid true and a warning
C7_Witness ==
    /\ pc = "done"
    /\ result.valid
    /\ result.warnings # <<>>
    /\ result.total_references > 0

\* C8: the type of a record is the first recognizer, in the order journal,
\* monograph, conference, dissertation, standard, that matches its entry,
\* and empty when none does.
C8_FirstMatchWins ==
    \A c \in 1..Len(references) :
        LET hits == Matching(references[c].raw_text) IN
        references[c].type = IF hits = {} THEN ""
                             ELSE RecognizerOrder[SetMin(hits)]

\* a record of an entry that two recognizers match
C8_Witness ==
    \E c \in 1..Len(references) :
        /\ Cardinality(Matching(references[c].raw_text)) > 1
        /\ references[c].type = "monograph"

\* C9: every entry that is not empty gives exactly one record, in order;
\* a record no recognizer matches has an empty type and the note, every
\* other record has a type and no note; and the record of empty type is
\* in self.references and has its errors in the report.
C9_OneRecordPerEntry ==
    /\ pc = "loop" => Len(references) = Cardinality(EntriesRead)
    /\ \A c \in 1..Len(references) :
         /\ references[c].type = "" <=> Matching(references[c].raw_text) = {}
         /\ references[c].errors =
              IF references[c].type = ""
              THEN <<Msg("TypeNotRecognized", 0)>> ELSE <<>>
         /\ references[c].type = "" =>
              \E d \in 1..Len(all_errors) :
                  all_errors[d] = Tagged(references[c],
                                         Msg("TypeNotRecognized", 0))
    /\ pc = "done" => /\ result.references = references
                      /\ result.errors = all_errors

\* a returned call whose second record no recognizer matches
C9_Witness ==
    /\ pc = "done"
    /\ Len(result.references) = 2
    /\ result.references[2].type = ""
    /\ result.references[2].errors # <<>>
    /\ result.references[1].type # ""

\* C10 (as the code has it): a title of more than TitleLimit characters is
\* an error, carrying the length, and not a warning, so that valid is
\* false; an empty title is an error; a title of up to TitleLimit characters
\* is neither.
C10_LongTitleIsError ==
    /\ Count(all_errors, "TitleTooLong") =
         Cardinality({ c \in 1..Len(references) :
                         Len(references[c].title) > TitleLimit })
    /\ Count(all_errors, "MissingTitle") =
         Cardinality({ c \in 1..Len(references) : references[c].title = <<>> })
    /\ \A d \in 1..Len(all_errors) :
         all_errors[d].m = "TitleTooLong" => all_errors[d].n > TitleLimit
    /\ Count(all_warnings, "TitleTooLong") = 0
    /\ (pc = "done" /\ Count(result.errors, "TitleTooLong") > 0) =>
         ~result.valid

\* C10 as stated: a title of more than TitleLimit characters adds nothing to
\* the errors and does not make valid false, and an empty title is an error.
C10_LongTitleIsWarning ==
    /\ Count(all_errors, "TitleTooLong") = 0
    /\ Count(all_errors, "MissingTitle") =
         Cardinality({ c \in 1..Len(references) : references[c].title = <<>> })
    /\ (pc = "done" /\ \A d \in 1..Len(result.errors) :
                          result.errors[d].m = "TitleTooLong") => result.valid

\* a returned call whose only error is the over-long title of its record
C10_Witness ==
    /\ pc = "done"
    /\ Len(result.references) = 1
    /\ Len(result.references[1].title) = TitleLimit + 1
    /\ MsgNames(result.errors) = <<"TitleTooLong">>
    /\ ~result.valid

\* the rule of each error, and the place of each rule in the order
RuleOf(m) ==
    CASE m \in {"MissingIndex", "SequenceGap"}  -> "sequence"
      [] m \in {"MissingAuthor", "Truncation"}  -> "author"
      [] m \in {"MissingTitle", "TitleTooLong"} -> "title"
      [] m = "TypeNotRecognized"                -> "classification"
      [] m \in {"MissingYear", "YearFormat"}    -> "year"

PlaceIn(order, rule) == CHOOSE k \in 1..Len(order) : order[k] = rule

InRuleOrder(msgs, order) ==
    \A a, b \in 1..Len(msgs) :
        a < b => PlaceIn(order, RuleOf(msgs[a].m)) < PlaceIn(order, RuleOf(msgs[b].m))

\* a round of the loop adds its messages at the end of the lists, labelled
\* with the number of its record
ReportedInInputOrder ==
    /\ SubSeq(all_errors', 1, Len(all_errors)) = all_errors
    /\ SubSeq(all_warnings', 1, Len(all_warnings)) = all_warnings
    /\ \A d \in 1..Len(NewErrors) : NewErrors[d].idx = NewRef.index
    /\ \A d \in 1..Len(NewWarnings) : NewWarnings[d].idx = NewRef.index

\* C11 (as the code has it): the errors of one record come in the rule order
\* sequence, author, title, classification, year, and each record's errors
\* and warnings are added after those of the records before it.
C11_RuleOrderOfTheCode ==
    [][Processing =>
         /\ InRuleOrder(NewErrors, <<"sequence", "author", "title",
                                     "classification", "year">>)
         /\ ReportedInInputOrder]_vars

\* C11 as stated: the errors of one record come in the rule order sequence,
\* classification, author, title, year, and the lists are in input order.
C11_RuleOrderAsStated ==
    [][Processing =>
         /\ InRuleOrder(NewErrors, <<"sequence", "classification", "author",
                                     "title", "year">>)
         /\ ReportedInInputOrder]_vars

\* a returned call on two entries, the second with the errors of all five
\* rules, the error of the title before that of the type
C11_Witness ==
    /\ pc = "done"
    /\ Len(result.references) = 2
    /\ \E d \in 1..Len(result.errors) :
         /\ d + 4 <= Len(result.errors)
         /\ MsgNames(SubSeq(result.errors, d, d + 4)) =
              <<"MissingIndex", "MissingAuthor", "MissingTitle",
                "TypeNotRecognized", "MissingYear">>
         /\ d > 1

\* C12: two calls of validate_references on one validator with the same
\* text, whatever was validated in between, return the same valid flag, the
\* same total, the same errors and the same warnings.
C12_RevalidationIdempotent ==
    \A a, b \in 1..Len(returned) :
        returned[a].text = returned[b].text =>
            /\ returned[a].result.valid = returned[b].result.valid
            /\ returned[a].result.total_references =
                 returned[b].result.total_references
            /\ returned[a].result.errors = returned[b].result.errors
            /\ returned[a].result.warnings = returned[b].result.warnings

\* a passing batch with a warning validated again after another batch
C12_Witness ==
    /\ Len(returned) = 3
    /\ returned[1].text = returned[3].text
    /\ returned[1].text # returned[2].text
    /\ returned[2].result.total_references > 1
    /\ returned[3].result.valid
    /\ returned[3].result.warnings # <<>>

\* the pieces of a list of texts that are not empty once stripped, stripped
NotEmpty(piece) == piece # <<>>
StrippedPieces(pieces) ==
    SelectSeq([c \in 1..Len(pieces) |-> Strip(pieces[c])], NotEmpty)

\* C13 (as the code has it): the entries are the lines of the text that are
\* not blank, each line an entry and a record of its own, so that
\* total_references is the number of such lines.
C13_EveryLineAnEntry ==
    /\ pc \in {"loop", "done"} =>
         StrippedPieces(ref_entries) =
           StrippedPieces(Split(references_text, "\n"))
    /\ pc = "done" =>
         /\ RawTexts(result.references) =
              StrippedPieces(Split(references_text, "\n"))
         /\ result.total_references =
              Len(StrippedPieces(Split(references_text, "\n")))

\* C13 as stated: the entries are the blocks of the text that blank lines
\* separate, and total_references is the number of blocks.
C13_EveryBlockAnEntry ==
    pc = "done" =>
        result.total_references =
          Len(StrippedPieces(SplitBlocks(Strip(references_text))))

\* a returned call on two lines with no blank line between them
C13_Witness ==
    /\ pc = "done"
    /\ Len(StrippedPieces(SplitBlocks(Strip(references_text)))) = 1
    /\ result.total_references = 2
    /\ result.references[1].raw_text # result.references[2].raw_text

\* self.references with the record of an entry at position k and, at the
\* positions before it, the record of an entry of one letter
AmongOthers(entry, k) ==
    [c \in 1..k |-> IF c = k THEN Parsed(entry).ref ELSE Reference(<<"x">>)]

\* C14: the errors and the warnings reported for the record at position k
\* are those reported for the same entry at position k when every other
\* entry of the batch is replaced, and every entry that is not empty has
\* been given a record when the call returns.
C14_FindingsOfEntryAndPosition ==
    [][/\ Processing =>
            /\ NewErrors =
                 TagAll(NewRef,
                        validate_reference(Parsed(NewRef.raw_text).ref,
                                           AmongOthers(NewRef.raw_text,
                                                       Position)))
            /\ NewWarnings =
                 TagAll(NewRef,
                        check_common_problems(Parsed(NewRef.raw_text).ref))
       /\ (pc = "loop" /\ pc' = "done") =>
            RawTexts(references) = StrippedPieces(ref_entries)]_vars

\* a returned call on an entry no pattern matches followed by an entry
\* with no errors
C14_Witness ==
    /\ pc = "done"
    /\ Len(result.references) = 2
    /\ result.references[1].type = ""
    /\ result.references[2].type = "journal"
    /\ result.references[2].index # result.references[1].index
    /\ \A d \in 1..Len(result.errors) :
         result.errors[d].idx = result.references[1].index

\* C15: every record with a type has its authors, its title and its year
\* set, and the errors missing author, missing title and missing year are
\* reported only for records with no type.
C15_MatchedRecordsPopulated ==
    /\ \A c \in 1..Len(references) :
         references[c].type # "" =>
             /\ references[c].authors # <<>>
             /\ references[c].title # <<>>
             /\ Truthy(references[c].year)
    /\ \A m \in {"MissingAuthor", "MissingTitle", "MissingYear"} :
         Count(all_errors, m) =
           Cardinality({ c \in 1..Len(references) : references[c].type = "" })

\* C16: every record with an empty type has no authors, an empty title,
\* source and pages, and no year, volume or issue.
C16_UnclassifiedHasNoFields ==
    \A c \in 1..Len(references) :
        references[c].type = "" =>
            /\ references[c].authors = <<>>
            /\ references[c].title = <<>>
            /\ references[c].source = <<>>
            /\ references[c].pages = <<>>
            /\ references[c].year = None
            /\ references[c].volume = None
            /\ references[c].issue = None

\* a record with a number and no type
C16_Witness ==
    \E c \in 1..Len(references) :
        /\ references[c].type = ""
        /\ references[c].index.some
        /\ references[c].raw_text # <<>>

\* the number an entry begins with, between brackets
LeadingNumber(s) ==
    IF \E p \in 3..Len(s) :
          /\ s[1] = "[" /\ s[p] = "]"
          /\ \A j \in 2..(p - 1) : s[j] \in Digits
    THEN LET p == CHOOSE p \in 3..Len(s) :
                    /\ s[1] = "[" /\ s[p] = "]"
                    /\ \A j \in 2..(p - 1) : s[j] \in Digits
         IN [some |-> TRUE, v |-> ToInt(SubSeq(s, 2, p - 1))]
    ELSE NoIndex

\* C17: the number of a record is the number its entry begins with, whether
\* or not a pattern matches the entry; a record whose entry begins with no
\* number has none, and gets the error missing number, once.
C17_NumberWhateverTheType ==
    /\ \A c \in 1..Len(references) :
         references[c].index = LeadingNumber(references[c].raw_text)
    /\ Count(all_errors, "MissingIndex") =
         Cardinality({ c \in 1..Len(references) : ~references[c].index.some })
    /\ \A d \in 1..Len(all_errors) :
         all_errors[d].m = "MissingIndex" => ~all_errors[d].idx.some

\* a record with no type and the number 2, and a record with no number
C17_Witness ==
    /\ Len(references) = 2
    /\ references[1].type = "" /\ references[1].index = Some(2)
    /\ ~references[2].index.some
    /\ Count(all_errors, "MissingIndex") = 1

ErrorNames ==
    {"MissingIndex", "SequenceGap", "MissingAuthor", "Truncation",
     "MissingTitle", "TitleTooLong", "TypeNotRecognized", "MissingYear",
     "YearFormat"}

\* C18 (as the code has it): a record gets the warning to use an
\* abbreviation exactly when its type is journal and its source is longer
\* than SourceLimit; the checks of check_common_problems add nothing to
\* the errors.
C18_AbbreviationForJournalsOnly ==
    [][Processing =>
         /\ Count(NewWarnings, "UseAbbreviation") =
              IF NewRef.type = "journal" /\ Len(NewRef.source) > SourceLimit
              THEN 1 ELSE 0
         /\ \A d \in 1..Len(NewErrors) : NewErrors[d].m \in ErrorNames
         /\ \A d \in 1..Len(NewWarnings) : NewWarnings[d].m \notin ErrorNames]_vars

\* C18 as stated: a record whose source is longer than SourceLimit gets the
\* warning to use an abbreviation whatever its type, and the checks add
\* nothing to the errors.
C18_AbbreviationWhateverTheType ==
    [][Processing =>
         /\ Len(NewRef.source) > SourceLimit =>
              Count(NewWarnings, "UseAbbreviation") = 1
         /\ \A d \in 1..Len(NewErrors) : NewErrors[d].m \in ErrorNames]_vars

\* a returned call with a monograph whose source is longer than
\* SourceLimit and no warning to use an abbreviation
C18_Witness ==
    /\ pc = "done"
    /\ \E c \in 1..Len(result.references) :
         /\ result.references[c].type = "monograph"
         /\ Len(result.references[c].source) > SourceLimit
    /\ Count(result.warnings, "UseAbbreviation") = 0

\* C20: a round of the loop, which parses one entry, leaves the attributes
\* of the validator other than self.references as they were.
C20_ParsingChangesNoAttribute ==
    [][Processing => publisher' = publisher]_vars

\* a text of Chinese characters only
AllChinese(t) == t # <<>> /\ \A c \in 1..Len(t) : t[c] \in CJK

\* C19: a text of N Chinese characters has the estimated word count N, and
\* check_word_limit and validate_paper find it within the limit exactly
\* when N is at most the limit.
C19_OneWordPerCharacter ==
    AllChinese(wc.text) =>
        /\ wc.count.some =>
             wc.count.v.estimated_word_count = Len(wc.text)
        /\ wc.check.some =>
             (wc.check.v.ok <=> Len(wc.text) <= wc.limit)
        /\ (wc.paper.some /\ ~wc.paper.v.raised) =>
             (wc.paper.v.valid <=> Len(wc.text) <= wc.limit)

\* the records parse_reference makes of the entries of the inputs
ParsedRecords == { ParsedSeq[k].ref : k \in 1..Len(ParsedSeq) }

\* the number the sequence check expects of the record r, were r the next
\* entry of the batch: validate_references appends r, then validates it
ExpectedOfNext(r) == ExpectedIndex(Append(references, r))

\* C21: every entry that is not empty takes one sequence position, whether
\* or not it is classified: after any prefix of the batch, the number the
\* sequence check expects of the next record, whatever that record is, is
\* the number it expects of a first record plus the number of entries
\* processed, and an empty entry does not advance it.
C21_EveryEntryTakesOnePosition ==
    pc \in {"loop", "done"} =>
        LET processed == Cardinality(EntriesRead)
        IN \A r \in ParsedRecords :
               ExpectedOfNext(r) = ExpectedIndex(<<r>>) + processed

\* a prefix of two entries, the first of them unclassified, has been
\* processed and the check has given its verdict on the second
C21_Witness ==
    /\ pc = "loop"
    /\ Len(references) = 2
    /\ references[1].type = ""
    /\ references[2].type # ""
    /\ references[2].index.some
    /\ \A r \in ParsedRecords : ExpectedOfNext(r) = ExpectedIndex(<<r>>) + 2

\* C22: validate_paper returns its dictionary for every text and raises for
\* none, the texts in which analyze_content_parts finds a title (a first
\* line that is not empty, is shorter than 30 characters, does not contain
\* the word YanJiu and does not begin with "<di>") included.
C22_ValidatePaperNeverRaises ==
    wc.paper.some => ~wc.paper.v.raised

\* the section whose round of the loop of inject_content has just ended
SectionInjected == SectionsOf(injector.content)[injector.section - 1]

\* what that round appended to the body: the paragraphs of the section and
\* its heading, one element more than the section has paragraphs
SectionBlock ==
    SubSeq(injector.body,
           Len(injector.body) - Len(SectionParagraphs(SectionInjected.content)),
           Len(injector.body))

\* the heading of the section is in the block, before every content
\* paragraph of the block (the paragraphs without a style)
SectionHeadingFirst ==
    \E h \in 1..Len(SectionBlock) :
        /\ SectionBlock[h] = Paragraph("Heading2", SectionInjected.name)
        /\ \A p \in 1..Len(SectionBlock) :
              SectionBlock[p].style = "" => h < p

\* the heading of the references is in the body, before the paragraphs of
\* the entries, which are the last elements of the body
ReferencesHeadingFirst ==
    \E h \in 1..(Len(injector.body) - Len(injector.content.references.v)) :
        injector.body[h] = Paragraph("Heading2", CanKaoWenXian)

\* C23: after inject_content, every heading built for a section or for the
\* references is in the body of the document and comes before the
\* paragraphs it introduces: the heading of each section precedes the
\* paragraphs of that section, from the round of the loop that injects the
\* section on, and the heading CanKaoWenXian precedes the reference entries
\* once inject_content has returned.
C23_HeadingsPrecedeContent ==
    /\ (injector.at = "sections" /\ injector.section > 1) =>
           SectionHeadingFirst
    /\ (injector.at = "done" /\ injector.content.references.some) =>
           ReferencesHeadingFirst

====
